---- MODULE Spec2Model ----
(***************************************************************************)
(* Model of src/app.py (StatFutBR dashboard): fetch_jogadores, the         *)
(* filter/sort pipeline of main(), criar_grafico_radar and                 *)
(* criar_grafico_comparativo.                                              *)
(*                                                                         *)
(* Python strings that are compared, lowercased or searched are modelled   *)
(* as sequences of code points, so that str.lower(), the `in` substring    *)
(* test and the lexicographic order are computed and not assumed.          *)
(* Statistic values are tagged: a JSON number, or a JSON string that       *)
(* float() has to parse.  Numbers are naturals (scaled per-90 values).     *)
(***************************************************************************)
EXTENDS Integers, Sequences, FiniteSets, TLC

\* ------------------------------------------------------------------ bounds
\* longest player list the backend returns
MaxPlayers == 3

\* ----------------------------------------------------------------- strings
Range(s) == {s[i] : i \in 1..Len(s)}

\* str.lower() on ASCII text
Lower(s) == [i \in 1..Len(s) |-> IF s[i] \in 65..90 THEN s[i] + 32 ELSE s[i]]

\* Python `sub in s`
Contains(sub, s) ==
    \E i \in 0..(Len(s) - Len(sub)) : SubSeq(s, i + 1, i + Len(sub)) = sub

\* Python str < str : first differing code point, else the shorter one
StrLess(a, b) ==
    \/ \E i \in 1..Len(a) :
          /\ i <= Len(b)
          /\ a[i] < b[i]
          /\ \A j \in 1..(i - 1) : a[j] = b[j]
    \/ /\ Len(a) < Len(b)
       /\ \A j \in 1..Len(a) : a[j] = b[j]

\* the two sentinels of the select boxes
Todos == <<84, 111, 100, 111, 115>>
Todas == <<84, 111, 100, 97, 115>>

\* the options of the "Ordenar por" select box
Ordenacoes == {"Nome", "Time", "Posicao", "Gols", "Assistencias", "Partidas"}

\* ------------------------------------------------------------- statistics
Num(n) == [kind |-> "num", num |-> n, str |-> <<>>]
Str(s) == [kind |-> "str", num |-> 0, str |-> s]

IsDigits(s) == Len(s) > 0 /\ \A i \in 1..Len(s) : s[i] \in 48..57

RECURSIVE DigitsValue(_)
DigitsValue(s) ==
    IF s = <<>> THEN 0
    ELSE 10 * DigitsValue(SubSeq(s, 1, Len(s) - 1)) + (s[Len(s)] - 48)

\* variant: a value that cannot be converted counts as 0
FloatLenient(v) ==
    IF v.kind = "num" THEN [ok |-> TRUE, val |-> v.num]
    ELSE IF IsDigits(v.str) THEN [ok |-> TRUE, val |-> DigitsValue(v.str)]
    ELSE [ok |-> TRUE, val |-> 0]

\* float(v): a number is itself, a string is parsed, anything else raises
Float(v) ==
    IF v.kind = "num" THEN [ok |-> TRUE, val |-> v.num]
    ELSE IF IsDigits(v.str) THEN [ok |-> TRUE, val |-> DigitsValue(v.str)]
    ELSE [ok |-> FALSE, val |-> 0]

\* variant: estatisticas.get(k), a missing key gives None
StatGetNoDefault(stats, k) == IF k \in DOMAIN stats THEN stats[k] ELSE Str(<<>>)

\* estatisticas.get(k, 0)
StatGet(stats, k) == IF k \in DOMAIN stats THEN stats[k] ELSE Num(0)

\* float(estatisticas.get(k, 0))
StatFloat(stats, k) == Float(StatGet(stats, k))

\* `if estatisticas:` -- a dict is truthy when it has a key
Truthy(stats) == DOMAIN stats # {}

EmptyStats == [k \in {} |-> Num(0)]

\* ------------------------------------------------------------ the backend
Player(i, n, t, p, s) ==
    [id |-> i, nome |-> n, time |-> t, posicao |-> p, estatisticas |-> s]

\* the players GET /jogadores can return; ids are unique
Roster ==
    { Player(1, <<65, 110, 97>>, <<65>>, <<70, 87>>,
             [k \in {"golsper90", "assistper90", "partidas"} |->
                 IF k = "golsper90" THEN Num(1) ELSE Num(2)]),
      Player(2, <<66, 101, 97>>, <<66>>, <<77, 70>>,
             [k \in {"golsper90", "assistper90", "xg"} |->
                 IF k = "golsper90" THEN Num(2) ELSE Num(0)]),
      Player(3, <<65, 110, 97>>, <<65>>, <<77, 70>>, EmptyStats),
      Player(4, <<97, 110, 97>>, <<66>>, <<70, 87>>,
             [k \in {"golsper90", "xag", "prgc"} |->
                 IF k = "golsper90" THEN Str(<<49>>)
                 ELSE IF k = "prgc" THEN Str(<<50>>) ELSE Num(2)]),
      Player(5, <<98, 101, 97>>, <<65>>, <<70, 87>>,
             [k \in {"golsper90", "partidas", "xg"} |->
                 IF k = "partidas" THEN Num(1) ELSE Str(<<120>>)]),
      Player(6, <<90, 101>>, <<66>>, <<71, 75>>,
             [k \in {"golsper90", "assistper90", "partidas"} |->
                 IF k = "golsper90" THEN Num(0) ELSE Str(<<120>>)]) }

\* "no row selected" / None
NoPlayer == Player(0, <<>>, <<>>, <<>>, EmptyStats)

RECURSIVE ListsOf(_)
ListsOf(n) ==
    IF n = 0 THEN {<<>>}
    ELSE LET shorter == ListsOf(n - 1)
         IN  shorter \cup
             { Append(l, p) : l \in {x \in shorter : Len(x) = n - 1},
                              p \in Roster }

\* every list of distinct players, in every order, up to MaxPlayers
ApiLists ==
    { l \in ListsOf(MaxPlayers) :
        \A i, j \in 1..Len(l) : i # j => l[i].id # l[j].id }

\* what the user can type in "Buscar por nome"
SearchPool == {<<>>, <<97, 110>>, <<65>>, <<122>>}

\* ------------------------------------------------------- fetch_jogadores
\* variant: the except branch returns [] without st.error
fetch_jogadores_silent(ok, data) ==
    IF ok THEN [lista |-> data, erro |-> FALSE]
    ELSE [lista |-> <<>>, erro |-> FALSE]

\* ok = the GET answered 2xx with a JSON body; otherwise the except branch
\* reports with st.error and returns []
fetch_jogadores(ok, data) ==
    IF ok THEN [lista |-> data, erro |-> FALSE]
    ELSE [lista |-> <<>>, erro |-> TRUE]

\* sorted(list(set(...))) over strings
RECURSIVE SortedStrings(_)
SortedStrings(S) ==
    IF S = {} THEN <<>>
    ELSE LET m == CHOOSE x \in S : \A y \in S \ {x} : StrLess(x, y)
         IN  <<m>> \o SortedStrings(S \ {m})

\* ["Todos"] + sorted(set(j['time'] for j in fetch_jogadores()))
TimeOptions(lista) ==
    <<Todos>> \o SortedStrings({lista[i].time : i \in 1..Len(lista)})

\* ["Todas"] + sorted(set(j['posicao'] for j in fetch_jogadores()))
PosicaoOptions(lista) ==
    <<Todas>> \o SortedStrings({lista[i].posicao : i \in 1..Len(lista)})

\* ---------------------------------------------------------------- filters
\* variant: the search string is not lowercased
NomeMatchRawSearch(j, search) == Contains(search, Lower(j.nome))

NomeMatch(j, search) == Contains(Lower(search), Lower(j.nome))

FiltroNome(L, search) ==
    IF search # <<>> THEN SelectSeq(L, LAMBDA j : NomeMatch(j, search)) ELSE L

\* variant: a team nobody plays for leaves the list as it is
FiltroTimeFallback(L, t) ==
    IF t # Todos /\ SelectSeq(L, LAMBDA j : j.time = t) # <<>>
    THEN SelectSeq(L, LAMBDA j : j.time = t) ELSE L

FiltroTime(L, t) ==
    IF t # Todos THEN SelectSeq(L, LAMBDA j : j.time = t) ELSE L

FiltroPosicao(L, p) ==
    IF p # Todas THEN SelectSeq(L, LAMBDA j : j.posicao = p) ELSE L

\* lines 183-190 in the order of the code
Filtrar(L, search, t, p) == FiltroPosicao(FiltroTime(FiltroNome(L, search), t), p)

\* each active filter rebinds `jogadores` to a new list; with no active
\* filter the name still refers to the list object fetch_jogadores returned
MesmoObjeto(search, t, p) == search = <<>> /\ t = Todos /\ p = Todas

\* ------------------------------------------------------------------- sort
\* the statistic a numeric sort key reads
SortStat(ord) ==
    IF ord = "Gols" THEN "golsper90"
    ELSE IF ord = "Assistencias" THEN "assistper90"
    ELSE "partidas"

NumericOrd(ord) == ord \in {"Gols", "Assistencias", "Partidas"}

\* the key function returns for this element (float() does not raise)
KeyOk(j, ord) == NumericOrd(ord) => StatFloat(j.estatisticas, SortStat(ord)).ok

KeyVal(j, ord) == StatFloat(j.estatisticas, SortStat(ord)).val

\* variant: reverse=True left out
AntesAscending(a, b, ord) ==
    CASE ord = "Nome" -> StrLess(a.nome, b.nome)
      [] ord = "Time" ->
            \/ StrLess(a.time, b.time)
            \/ a.time = b.time /\ StrLess(a.nome, b.nome)
      [] ord = "Posicao" ->
            \/ StrLess(a.posicao, b.posicao)
            \/ a.posicao = b.posicao /\ StrLess(a.nome, b.nome)
      [] OTHER -> KeyVal(a, ord) < KeyVal(b, ord)

\* a has to be placed before b: key(a) < key(b), or key(a) > key(b) under
\* reverse=True
Antes(a, b, ord) ==
    CASE ord = "Nome" -> StrLess(a.nome, b.nome)
      [] ord = "Time" ->
            \/ StrLess(a.time, b.time)
            \/ a.time = b.time /\ StrLess(a.nome, b.nome)
      [] ord = "Posicao" ->
            \/ StrLess(a.posicao, b.posicao)
            \/ a.posicao = b.posicao /\ StrLess(a.nome, b.nome)
      [] OTHER -> KeyVal(a, ord) > KeyVal(b, ord)

\* variant: x goes in front of the first element that does not precede it,
\* which turns the order of equal keys around
InsertBeforeEqual(sorted, x, ord) ==
    LET idx == {i \in 1..Len(sorted) : ~Antes(sorted[i], x, ord)}
    IN  IF idx = {} THEN Append(sorted, x)
        ELSE LET i == CHOOSE k \in idx : \A m \in idx : k <= m
             IN  SubSeq(sorted, 1, i - 1) \o <<x>> \o SubSeq(sorted, i, Len(sorted))

\* x goes in front of the first element it has to precede, so that equal
\* keys keep their order (list.sort is stable, also with reverse=True)
InsertStable(sorted, x, ord) ==
    LET idx == {i \in 1..Len(sorted) : Antes(x, sorted[i], ord)}
    IN  IF idx = {} THEN Append(sorted, x)
        ELSE LET i == CHOOSE k \in idx : \A m \in idx : k <= m
             IN  SubSeq(sorted, 1, i - 1) \o <<x>> \o SubSeq(sorted, i, Len(sorted))

RECURSIVE SortStable(_, _)
SortStable(L, ord) ==
    IF L = <<>> THEN <<>>
    ELSE InsertStable(SortStable(SubSeq(L, 1, Len(L) - 1), ord), L[Len(L)], ord)

\* jogadores.sort(key=..., reverse=...): the keys of all elements are
\* computed first; when one raises the list is left as it was
Ordenar(L, ord) ==
    IF \A i \in 1..Len(L) : KeyOk(L[i], ord)
    THEN [ok |-> TRUE, lista |-> SortStable(L, ord)]
    ELSE [ok |-> FALSE, lista |-> L]

\* ----------------------------------------------------------------- charts
RadarLabels == <<"Gols/90", "Assist/90", "xG", "xAG", "PRGC", "PRGP">>
RadarKeys == <<"golsper90", "assistper90", "xg", "xag", "prgc", "prgp">>

NoMetrics == [l \in {} |-> 0]
NotCalled == [kind |-> "not_called", metrics |-> NoMetrics, dados |-> <<>>]
NoChart == [kind |-> "none", metrics |-> NoMetrics, dados |-> <<>>]
Raised == [kind |-> "raise", metrics |-> NoMetrics, dados |-> <<>>]

\* lines 83-118; the figure is represented by its metrics dict
criar_grafico_radar(estatisticas) ==
    IF ~Truthy(estatisticas) THEN NoChart
    ELSE IF \E i \in 1..Len(RadarKeys) : ~StatFloat(estatisticas, RadarKeys[i]).ok
    THEN Raised
    ELSE [kind |-> "fig",
          metrics |-> [l \in Range(RadarLabels) |->
              LET i == CHOOSE k \in 1..Len(RadarLabels) : RadarLabels[k] = l
              IN  StatFloat(estatisticas, RadarKeys[i]).val],
          dados |-> <<>>]

\* the metricas list main() passes
Metricas == <<"golsper90", "assistper90", "xg", "xag">>

\* variant: the selected player is recognised by name
IsPeerByName(jogador, atual) == jogador.nome # atual.nome

\* `if jogador['id'] != jogador_atual['id']`
IsPeer(jogador, atual) == jogador.id # atual.id

\* one element of `dados`; src_id is not part of the dict the code builds,
\* it records which player the row was built from
Row(jogador, metricas) ==
    [Jogador |-> jogador.nome, Time |-> jogador.time,
     Posicao |-> jogador.posicao, src_id |-> jogador.id,
     valores |-> [m \in Range(metricas) |->
                     StatFloat(jogador.estatisticas, m).val]]

RowOk(jogador, metricas) ==
    \A m \in Range(metricas) : StatFloat(jogador.estatisticas, m).ok

RECURSIVE Dados(_, _, _)
Dados(atual, jogadores, metricas) ==
    IF jogadores = <<>> THEN <<>>
    ELSE LET j == Head(jogadores)
             rest == Dados(atual, Tail(jogadores), metricas)
         IN  IF IsPeer(j, atual) THEN <<Row(j, metricas)>> \o rest ELSE rest

\* lines 120-144; the figure is represented by its `dados` rows
criar_grafico_comparativo(atual, jogadores, metricas) ==
    IF atual = NoPlayer \/ jogadores = <<>> THEN NoChart
    ELSE IF \E i \in 1..Len(jogadores) :
                IsPeer(jogadores[i], atual) /\ ~RowOk(jogadores[i], metricas)
    THEN Raised
    ELSE LET dados == Dados(atual, jogadores, metricas)
         IN  IF dados = <<>> THEN NoChart
             ELSE [kind |-> "fig", metrics |-> NoMetrics, dados |-> dados]

\* lines 287-293: f"{value:.2f}" raises for a value that is not a number
FormatKeys == {"percchutesagol", "golsporchute", "prgr", "prgc", "prgp"}

DetalhesOk(sel) ==
    \A k \in FormatKeys : StatGet(sel.estatisticas, k).kind = "num"

\* ------------------------------------------------------------------ state
VARIABLES
    api,                  \* the list GET /jogadores answers with
    pc,                   \* "start": script about to run, "end": run over
    fetchOk,              \* outcome of the three fetch_jogadores calls
    erros,                \* number of st.error messages shown
    timeOptions,          \* options of "Filtrar por time"
    posicaoOptions,       \* options of "Filtrar por posição"
    search_term,
    time_selecionado,
    posicao_selecionada,
    ordenacao,
    fetched,              \* the list object the third fetch returned
    filtrados,            \* `jogadores` after line 190
    jogadores,            \* `jogadores` when the run ends
    warning,              \* st.warning("Nenhum jogador encontrado.") shown
    grid,                 \* AgGrid shown
    jogador_selecionado,  \* grid_response['selected_rows'][0] or NoPlayer
    radarRes,             \* what criar_grafico_radar returned
    compRes,              \* what criar_grafico_comparativo returned
    crash,                \* where an exception left main(), or "none"
    callArg               \* arguments of a direct call of a chart builder

vars == <<api, pc, fetchOk, erros, timeOptions, posicaoOptions, search_term,
          time_selecionado, posicao_selecionada, ordenacao, fetched,
          filtrados, jogadores, warning, grid, jogador_selecionado,
          radarRes, compRes, crash, callArg>>

NoCall == [radar |-> FALSE, estatisticas |-> EmptyStats,
           comp |-> FALSE, atual |-> NoPlayer]

\* the local state of a run that has not started
Fresh ==
    /\ pc = "start"
    /\ fetchOk = <<TRUE, TRUE, TRUE>>
    /\ erros = 0
    /\ timeOptions = <<>>
    /\ posicaoOptions = <<>>
    /\ search_term = <<>>
    /\ time_selecionado = Todos
    /\ posicao_selecionada = Todas
    /\ ordenacao = "Nome"
    /\ fetched = <<>>
    /\ filtrados = <<>>
    /\ jogadores = <<>>
    /\ warning = FALSE
    /\ grid = FALSE
    /\ jogador_selecionado = NoPlayer
    /\ radarRes = NotCalled
    /\ compRes = NotCalled
    /\ crash = "none"

Init ==
    /\ api \in ApiLists
    /\ Fresh
    /\ callArg = NoCall

\* lines 206-294: what the run shows for the list `lista`, the sort having
\* returned, when the user has the row `sel` selected
Exibir(lista, sel) ==
    LET hasGrid == lista # <<>>
        chosen == hasGrid /\ sel # NoPlayer
        charts == chosen /\ Truthy(sel.estatisticas)
        radar == IF charts THEN criar_grafico_radar(sel.estatisticas)
                 ELSE NotCalled
        comp == IF charts /\ radar.kind # "raise"
                THEN criar_grafico_comparativo(sel, lista, Metricas)
                ELSE NotCalled
    IN  [grid |-> hasGrid,
         sel |-> IF chosen THEN sel ELSE NoPlayer,
         radar |-> radar,
         comp |-> comp,
         crash |-> IF radar.kind = "raise" THEN "radar"
                   ELSE IF comp.kind = "raise" THEN "comparativo"
                   ELSE IF chosen /\ ~DetalhesOk(sel) THEN "detalhes"
                   ELSE "none"]

\* one run of main()
Main ==
    /\ pc = "start"
    /\ \E ok1, ok2, ok3 \in BOOLEAN, search \in SearchPool, ord \in Ordenacoes :
         LET f1 == fetch_jogadores(ok1, api)
             f2 == fetch_jogadores(ok2, api)
             f3 == fetch_jogadores(ok3, api)
             topts == TimeOptions(f1.lista)
             popts == PosicaoOptions(f2.lista)
         IN  \E t \in Range(topts), p \in Range(popts) :
               LET filt == Filtrar(f3.lista, search, t, p)
                   sorted == Ordenar(filt, ord)
                   rows == IF sorted.ok THEN Range(sorted.lista) ELSE {}
               IN  \E sel \in {NoPlayer} \cup rows :
                     LET show == Exibir(sorted.lista, sel)
                     IN
                     /\ pc' = "end"
                     /\ fetchOk' = <<ok1, ok2, ok3>>
                     /\ erros' = Cardinality({i \in 1..3 : <<f1, f2, f3>>[i].erro})
                     /\ timeOptions' = topts
                     /\ posicaoOptions' = popts
                     /\ search_term' = search
                     /\ time_selecionado' = t
                     /\ posicao_selecionada' = p
                     /\ ordenacao' = ord
                     /\ IF f3.lista = <<>>
                        THEN \* line 178: warning and return
                             /\ warning' = TRUE
                             /\ fetched' = f3.lista
                             /\ filtrados' = <<>>
                             /\ jogadores' = f3.lista
                             /\ grid' = FALSE
                             /\ jogador_selecionado' = NoPlayer
                             /\ radarRes' = NotCalled
                             /\ compRes' = NotCalled
                             /\ crash' = "none"
                        ELSE /\ warning' = FALSE
                             /\ filtrados' = filt
                             /\ jogadores' = sorted.lista
                             /\ fetched' = IF MesmoObjeto(search, t, p)
                                           THEN sorted.lista ELSE f3.lista
                             /\ IF sorted.ok
                                THEN /\ grid' = show.grid
                                     /\ jogador_selecionado' = show.sel
                                     /\ radarRes' = show.radar
                                     /\ compRes' = show.comp
                                     /\ crash' = show.crash
                                ELSE /\ grid' = FALSE
                                     /\ jogador_selecionado' = NoPlayer
                                     /\ radarRes' = NotCalled
                                     /\ compRes' = NotCalled
                                     /\ crash' = "sort"
    /\ UNCHANGED <<api, callArg>>

\* the next interaction reruns the script: nothing of the run is kept
Rerun ==
    /\ pc = "end"
    /\ pc' = "start"
    /\ fetchOk' = <<TRUE, TRUE, TRUE>>
    /\ erros' = 0
    /\ timeOptions' = <<>>
    /\ posicaoOptions' = <<>>
    /\ search_term' = <<>>
    /\ time_selecionado' = Todos
    /\ posicao_selecionada' = Todas
    /\ ordenacao' = "Nome"
    /\ fetched' = <<>>
    /\ filtrados' = <<>>
    /\ jogadores' = <<>>
    /\ warning' = FALSE
    /\ grid' = FALSE
    /\ jogador_selecionado' = NoPlayer
    /\ radarRes' = NotCalled
    /\ compRes' = NotCalled
    /\ crash' = "none"
    /\ UNCHANGED <<api, callArg>>

Next == Main \/ Rerun

Spec == Init /\ [][Next]_vars

\* -------------------------------------------- the chart builders on their own
\* criar_grafico_radar called with any statistics bag
CallRadar ==
    /\ pc = "start"
    /\ \E j \in Roster :
         /\ callArg' = [callArg EXCEPT !.radar = TRUE,
                                       !.estatisticas = j.estatisticas]
         /\ radarRes' = criar_grafico_radar(j.estatisticas)
    /\ UNCHANGED <<api, pc, fetchOk, erros, timeOptions, posicaoOptions,
                   search_term, time_selecionado, posicao_selecionada,
                   ordenacao, fetched, filtrados, jogadores, warning, grid,
                   jogador_selecionado, compRes, crash>>

\* criar_grafico_comparativo called with any player (or None) and the list
CallComparativo ==
    /\ pc = "start"
    /\ \E atual \in Roster \cup {NoPlayer} :
         /\ callArg' = [callArg EXCEPT !.comp = TRUE, !.atual = atual]
         /\ compRes' = criar_grafico_comparativo(atual, api, Metricas)
    /\ UNCHANGED <<api, pc, fetchOk, erros, timeOptions, posicaoOptions,
                   search_term, time_selecionado, posicao_selecionada,
                   ordenacao, fetched, filtrados, jogadores, warning, grid,
                   jogador_selecionado, radarRes, crash>>

NextCharts == CallRadar \/ CallComparativo

SpecCharts == Init /\ [][NextCharts]_vars

\* ============================================================== properties
Count(L, x) == Cardinality({i \in 1..Len(L) : L[i] = x})

IsPermutation(a, b) ==
    /\ Len(a) = Len(b)
    /\ \A x \in Range(a) \cup Range(b) : Count(a, x) = Count(b, x)

\* position of a player in a list of distinct players
Idx(L, x) == CHOOSE i \in 1..Len(L) : L[i] = x

\* the statistic k of player j, 0 when the key is missing
Value(j, k) ==
    IF k \in DOMAIN j.estatisticas THEN Float(j.estatisticas[k]).val ELSE 0

\* the value of key k is there and is not numeric: a string that is not a
\* number
Malformed(stats, k) ==
    /\ k \in DOMAIN stats
    /\ stats[k].kind = "str"
    /\ ~IsDigits(stats[k].str)

\* (a1, a2) < (b1, b2) on pairs of strings
PairLess(a1, a2, b1, b2) == StrLess(a1, b1) \/ (a1 = b1 /\ StrLess(a2, b2))

\* the run got past the empty-list return of line 178
Listed == pc = "end" /\ ~warning

\* the sort step of the run has returned
Sorted == Listed /\ crash # "sort"

\* the player passes the three selections of the run
Keeps(j) ==
    /\ search_term = <<>> \/ Contains(Lower(search_term), Lower(j.nome))
    /\ time_selecionado = Todos \/ j.time = time_selecionado
    /\ posicao_selecionada = Todas \/ j.posicao = posicao_selecionada

\* C1: after the filter step the list holds exactly the fetched players that
\* satisfy the name, team and position conditions together, each once
C1_FilterKeepsExactlyTheMatches ==
    Listed =>
        /\ Range(filtrados) = {j \in Range(api) : Keeps(j)}
        /\ \A j \in Range(filtrados) : Count(filtrados, j) = Count(api, j)

C1_Witness ==
    /\ Listed
    /\ search_term # <<>>
    /\ time_selecionado # Todos
    /\ posicao_selecionada # Todas
    /\ filtrados # <<>>
    /\ Len(filtrados) < Len(api)
    /\ \E j \in Range(api) : j.nome # Lower(j.nome) /\ j \in Range(filtrados)

\* C2: sorted by Nome the names are non-decreasing, sorted by Gols the
\* golsper90 values (0 when missing) are non-increasing, and the sorted list
\* is a permutation of the filtered list
C2_SortNomeGols ==
    Sorted =>
        /\ IsPermutation(jogadores, filtrados)
        /\ ordenacao = "Nome" =>
              \A i, j \in 1..Len(jogadores) :
                  i < j => ~StrLess(jogadores[j].nome, jogadores[i].nome)
        /\ ordenacao = "Gols" =>
              \A i, j \in 1..Len(jogadores) :
                  i < j => Value(jogadores[i], "golsper90")
                             >= Value(jogadores[j], "golsper90")

C2_Witness ==
    /\ Sorted
    /\ ordenacao = "Gols"
    /\ Len(jogadores) = 3
    /\ jogadores # filtrados
    /\ \E j \in Range(jogadores) : "golsper90" \notin DOMAIN j.estatisticas
    /\ \E j \in Range(jogadores) : Value(j, "golsper90") > 1

\* C3: for a list that contains the selected player once, the comparison
\* rows are one row per player of the list whose id differs from the selected
\* player's id, in list order; a peer with the selected player's name is
\* kept; no chart when there is no such player
C3_ComparativoRows ==
    (callArg.comp /\ Count(api, callArg.atual) = 1 /\ compRes.kind # "raise") =>
        LET peers == SelectSeq(api, LAMBDA j : j.id # callArg.atual.id)
        IN  /\ Len(compRes.dados) = Len(peers)
            /\ \A i \in 1..Len(peers) :
                  /\ compRes.dados[i].src_id = peers[i].id
                  /\ compRes.dados[i].Jogador = peers[i].nome
                  /\ compRes.dados[i].Time = peers[i].time
                  /\ compRes.dados[i].Posicao = peers[i].posicao
                  /\ compRes.dados[i].src_id # callArg.atual.id
            /\ \A j \in Range(api) :
                  (j.nome = callArg.atual.nome /\ j.id # callArg.atual.id)
                  => \E i \in 1..Len(compRes.dados) :
                        compRes.dados[i].src_id = j.id
            /\ (compRes.kind = "none") <=> (peers = <<>>)
            /\ (compRes.kind = "fig") <=> (peers # <<>>)

C3_Witness ==
    /\ callArg.comp
    /\ compRes.kind = "fig"
    /\ Len(api) = 3
    /\ callArg.atual = api[2]
    /\ Len(compRes.dados) = 2
    /\ \E j \in Range(api) :
          j.nome = callArg.atual.nome /\ j.id # callArg.atual.id

ZeroMetrics == [l \in Range(RadarLabels) |-> 0]

\* C5 as stated: for an empty bag the radar builder yields the six labels
\* mapped to 0, and the comparison builder maps the metrics of a peer with
\* an empty bag to 0
C5_EmptyBagProjectsToZeros ==
    /\ (callArg.radar /\ callArg.estatisticas = EmptyStats) =>
          (radarRes.kind = "fig" /\ radarRes.metrics = ZeroMetrics)
    /\ (callArg.comp /\ compRes.kind = "fig") =>
          \A i \in 1..Len(compRes.dados) :
              (\E j \in Range(api) : j.id = compRes.dados[i].src_id
                                     /\ j.estatisticas = EmptyStats)
              => \A m \in Range(Metricas) : compRes.dados[i].valores[m] = 0

\* C5 amended: for an empty bag the radar builder returns no chart without
\* raising; a key missing from a non-empty bag is projected to 0; the
\* comparison builder maps the metrics of a peer with an empty bag to 0 and
\* does not raise when every peer's bag is empty
C5_MissingKeysAreZero ==
    /\ (callArg.radar /\ callArg.estatisticas = EmptyStats) =>
          radarRes = NoChart
    /\ (callArg.radar /\ callArg.estatisticas # EmptyStats) =>
          /\ radarRes.kind \in {"fig", "raise"}
          /\ (\A k \in Range(RadarKeys) : ~Malformed(callArg.estatisticas, k))
                => radarRes.kind = "fig"
          /\ radarRes.kind = "fig" =>
                \A i \in 1..Len(RadarKeys) :
                    RadarKeys[i] \notin DOMAIN callArg.estatisticas
                    => radarRes.metrics[RadarLabels[i]] = 0
    /\ (callArg.comp /\ compRes.kind = "fig") =>
          \A i \in 1..Len(compRes.dados) :
              (\E j \in Range(api) : j.id = compRes.dados[i].src_id
                                     /\ j.estatisticas = EmptyStats)
              => \A m \in Range(Metricas) : compRes.dados[i].valores[m] = 0
    /\ (callArg.comp /\ callArg.atual # NoPlayer
          /\ \A j \in Range(api) :
                j.id # callArg.atual.id => j.estatisticas = EmptyStats)
          => compRes.kind # "raise"

C5_Witness ==
    /\ callArg.radar
    /\ callArg.estatisticas = EmptyStats
    /\ radarRes = NoChart
    /\ callArg.comp
    /\ compRes.kind = "fig"
    /\ \E i \in 1..Len(compRes.dados) :
          \E j \in Range(api) : /\ j.id = compRes.dados[i].src_id
                                /\ j.estatisticas = EmptyStats

\* C6: when the fetched list is not empty and no player passes the filters,
\* the run ends without raising, with an empty list, and tells the user
\* that there are no results
C6_EmptyResultIsReported ==
    (pc = "end" /\ fetchOk[3] /\ api # <<>> /\ filtrados = <<>>) =>
        /\ crash = "none"
        /\ jogadores = <<>>
        /\ warning

\* C7: the list object fetch_jogadores returned has the same elements in
\* the same order after the sort step as when it was fetched
C7_FetchedListUntouched ==
    (pc = "end" /\ fetchOk[3]) => fetched = api

\* C8: the three filters give the same set of players in every order of
\* application, the one of the code included
C8_FiltersCommute ==
    Listed =>
        LET s == search_term
            t == time_selecionado
            p == posicao_selecionada
            ntp == Range(FiltroPosicao(FiltroTime(FiltroNome(api, s), t), p))
        IN  /\ Range(filtrados) = ntp
            /\ Range(FiltroTime(FiltroPosicao(FiltroNome(api, s), p), t)) = ntp
            /\ Range(FiltroPosicao(FiltroNome(FiltroTime(api, t), s), p)) = ntp
            /\ Range(FiltroNome(FiltroPosicao(FiltroTime(api, t), p), s)) = ntp
            /\ Range(FiltroTime(FiltroNome(FiltroPosicao(api, p), s), t)) = ntp
            /\ Range(FiltroNome(FiltroTime(FiltroPosicao(api, p), t), s)) = ntp
            /\ Range(FiltroPosicao(FiltroTime(api, t), p))
                  = Range(FiltroTime(FiltroPosicao(api, p), t))

C8_Witness ==
    /\ Listed
    /\ search_term # <<>>
    /\ time_selecionado # Todos
    /\ posicao_selecionada # Todas
    /\ Len(api) = 3
    /\ Len(FiltroTime(api, time_selecionado)) = 2
    /\ Len(FiltroPosicao(api, posicao_selecionada)) = 2
    /\ Len(filtrados) = 1

\* the statistic the numeric sort keys read
OrdStat ==
    CASE ordenacao = "Gols" -> "golsper90"
      [] ordenacao = "Assistencias" -> "assistper90"
      [] ordenacao = "Partidas" -> "partidas"
      [] OTHER -> "none"

\* C9: a statistic that is present and cannot be converted makes the
\* operation that reads it fail (the sort, the radar builder, the comparison
\* builder); a missing key never does and counts as 0
C9_MalformedValueRaises ==
    Listed =>
        /\ (crash = "sort") <=>
              \E j \in Range(filtrados) : Malformed(j.estatisticas, OrdStat)
        /\ crash = "sort" => (jogadores = filtrados /\ ~grid)
        /\ (crash = "radar") <=>
              /\ jogador_selecionado # NoPlayer
              /\ \E k \in Range(RadarKeys) :
                    Malformed(jogador_selecionado.estatisticas, k)
        /\ radarRes.kind = "fig" =>
              \A i \in 1..Len(RadarKeys) :
                  RadarKeys[i] \notin DOMAIN jogador_selecionado.estatisticas
                  => radarRes.metrics[RadarLabels[i]] = 0
        /\ (crash = "comparativo") <=>
              /\ radarRes.kind = "fig"
              /\ \E j \in Range(jogadores) :
                    /\ j.id # jogador_selecionado.id
                    /\ \E m \in Range(Metricas) : Malformed(j.estatisticas, m)
        /\ compRes.kind = "fig" =>
              \A i \in 1..Len(compRes.dados) :
                  \A j \in Range(jogadores) :
                      j.id = compRes.dados[i].src_id =>
                          \A m \in Range(Metricas) :
                              compRes.dados[i].valores[m] = Value(j, m)

C9_Witness ==
    /\ Listed
    /\ crash = "sort"
    /\ ordenacao = "Gols"
    /\ Len(filtrados) = 3
    /\ \E j \in Range(filtrados) : Malformed(j.estatisticas, "golsper90")
    /\ \E j \in Range(filtrados) : "golsper90" \notin DOMAIN j.estatisticas

\* the two players have the same sort key under the selected order
SameKey(a, b) ==
    CASE ordenacao = "Nome" -> a.nome = b.nome
      [] ordenacao = "Time" -> a.time = b.time /\ a.nome = b.nome
      [] ordenacao = "Posicao" -> a.posicao = b.posicao /\ a.nome = b.nome
      [] OTHER -> Value(a, OrdStat) = Value(b, OrdStat)

\* C10: Time sorts ascending by (team, name), Posicao by (position, name),
\* Gols/Assistencias/Partidas descending by the statistic with a missing one
\* as 0; players with equal key keep the order of the filtered list, and a
\* player without the statistic never precedes one with a positive value
C10_StableSortWithTieBreak ==
    Sorted =>
        \A i, j \in 1..Len(jogadores) :
            i < j =>
                LET a == jogadores[i]
                    b == jogadores[j]
                IN  /\ ordenacao = "Time" =>
                          ~PairLess(b.time, b.nome, a.time, a.nome)
                    /\ ordenacao = "Posicao" =>
                          ~PairLess(b.posicao, b.nome, a.posicao, a.nome)
                    /\ OrdStat # "none" =>
                          /\ Value(a, OrdStat) >= Value(b, OrdStat)
                          /\ ~(OrdStat \notin DOMAIN a.estatisticas
                                 /\ Value(b, OrdStat) > 0)
                    /\ SameKey(a, b) => Idx(filtrados, a) < Idx(filtrados, b)

C10_Witness ==
    /\ Sorted
    /\ ordenacao = "Gols"
    /\ Len(jogadores) = 3
    /\ jogadores # filtrados
    /\ \E i \in 1..2 :
          /\ Value(jogadores[i], "golsper90") = Value(jogadores[i + 1], "golsper90")
          /\ Value(jogadores[i], "golsper90") > 0
          /\ StrLess(jogadores[i + 1].nome, jogadores[i].nome)

====
